---- MODULE Spec2Model ----
(***************************************************************************)
(* Model of the API-quota governor of SmartInvest and of its callers:     *)
(*   src/src/services/rateLimiter.ts  (class RateLimiter)                  *)
(*   src/src/services/translation.ts  (TranslationCache, translateText)    *)
(*   the daily updates service        (getDailyUpdates and its cache)      *)
(*                                                                         *)
(* JavaScript runs each handler to its next `await`, so every action below *)
(* is one such run-to-completion segment of execute()/processQueue() or of *)
(* getDailyUsage().  Date.now() is the variable `now` (milliseconds); it   *)
(* is monotonic and advances only through Tick.  Local                    *)
(* midnights are the multiples of MsPerDay.  A setTimeout callback runs at *)
(* any instant not earlier than its delay.                                 *)
(***************************************************************************)
EXTENDS Integers, Sequences, FiniteSets, TLC

\* ---------------------------------------------------------------- bounds
MaxItems == 4        \* number of execute() calls explored
MaxRPD == 2          \* largest requestsPerDay explored
TickMs == 22000      \* granularity at which the clock is observed
StartLead == 3       \* construction happens at most this many ticks before midnight
MaxTicks == 8        \* ticks observed around each midnight
maxEntries == 2      \* TranslationCache.maxEntries (500 in the source, scaled down)
MaxSets == 4         \* set() calls explored between two clear() calls
MaxCalls == 3        \* translateText calls explored
MaxDailyCalls == 3   \* getDailyUpdates calls explored
MaxLiveItems == 3    \* execute() calls explored under fair scheduling
MaxDays == 2         \* whole days the limiter is left idle

\* ------------------------------------------------------ program constants
MsPerMinute == 60000
MarginNum == 11
MarginDen == 10
MsPerDay == 86400000
RPMs == {1, 2}
QuotaError == "Daily API quota exceeded. Please try again tomorrow."
UnitValues == {"ok"}
UnitErrors == {"API Error"}

Items == 1..MaxItems
Range(s) == {s[k] : k \in 1..Len(s)}

VARIABLES
    now,                 \* Date.now()
    minInterval,         \* RateLimiter.minInterval
    maxRequestsPerDay,   \* RateLimiter.maxRequestsPerDay
    lastRequestTime,     \* RateLimiter.lastRequestTime
    queue,               \* RateLimiter.queue (item ids, oldest first)
    processing,          \* RateLimiter.processing
    dailyRequestCount,   \* RateLimiter.dailyRequestCount
    dailyResetTime,      \* RateLimiter.dailyResetTime
    phase,               \* where each item is: unsubmitted, queued, sleeping, awaiting, finished
    wakeAt,              \* earliest instant the pacing timer holding an item may fire
    promise,             \* the promise execute() returned for each item
    unitResult,          \* what each item's unit of work produced
    invocations,         \* how many times each item's fn was called
    settlements,         \* how many times each item's resolve/reject was called
    dispatchLog,         \* the dispatches, in order: item and instant lastRequestTime was set
    lastDrain,           \* the items the quota branch rejected the last time it ran
    resetSubmit,         \* the first execute() made with the counter at the ceiling and the
                         \* boundary passed: its item and the queue length it found
    queuedAtFailure,     \* the items that were in the queue when some unit of work failed
    quotaUntil           \* dailyResetTime as it stood when the quota branch last ran (0: never)

\* src/src/services/translation.ts and the services that call the Gemini API
VARIABLES
    cache,               \* TranslationCache.cache: the Map's entries in insertion order
    lastCall,            \* the last TranslationCache operation and what it returned
    setLog,              \* the set() calls made since the cache was last empty by construction or clear()
    cleared,             \* clear() has been called
    tcalls,              \* the translateText calls made, in order
    apiLog,              \* the generateContentStream requests translateText issued, in order
    outbound,            \* the services that called the Gemini API and the route each took
    localStorage,        \* the daily_updates_* items of localStorage (null: no item)
    dcalls               \* the getDailyUpdates calls made, in order

limiterVars == <<now, minInterval, maxRequestsPerDay, lastRequestTime, queue, processing,
                 dailyRequestCount, dailyResetTime, phase, wakeAt, promise, unitResult,
                 invocations, settlements, dispatchLog, lastDrain, resetSubmit,
                 queuedAtFailure, quotaUntil>>
cacheVars == <<cache, lastCall, setLog, cleared>>
serviceVars == <<tcalls, apiLog, outbound, localStorage, dcalls>>
vars == <<limiterVars, cacheVars, serviceVars>>

Pending == [state |-> "pending", value |-> "none"]
Fulfilled(v) == [state |-> "fulfilled", value |-> v]
Rejected(e) == [state |-> "rejected", value |-> e]
NoResult == [kind |-> "none", value |-> "none"]
UnitOutcomes == [kind : {"ok"}, value : UnitValues] \cup [kind : {"err"}, value : UnitErrors]

\* a constructor that takes the interval from 1000 ms instead of 60000 ms
MinIntervalPerSecond(requestsPerMinute) ==
    (1000 * MarginNum) \div (requestsPerMinute * MarginDen)

\* constructor: minInterval = (60000 / requestsPerMinute) * 1.1
\* (exact for every requestsPerMinute in RPMs)
MinIntervalOf(requestsPerMinute) ==
    (MsPerMinute * MarginNum) \div (requestsPerMinute * MarginDen)

\* calculateNextReset: the first midnight after the instant t
calculateNextReset(t) == ((t \div MsPerDay) + 1) * MsPerDay

\* a limit check that never resets the counter
checkDailyLimitNoReset(cnt, rst, t) ==
    [count |-> cnt, reset |-> rst, exceeded |-> cnt >= maxRequestsPerDay]

\* a limit check that clears the counter when it finds the limit reached
checkDailyLimitClearsOnHit(cnt, rst, t) ==
    LET passed == t >= rst
        c == IF passed THEN 0 ELSE cnt
        r == IF passed THEN calculateNextReset(t) ELSE rst
        hit == c >= maxRequestsPerDay
    IN  [count |-> IF hit THEN 0 ELSE c, reset |-> r, exceeded |-> hit]

\* a limit check that moves the boundary one day on from where it stood
checkDailyLimitAddsDay(cnt, rst, t) ==
    LET passed == t >= rst
        c == IF passed THEN 0 ELSE cnt
        r == IF passed THEN rst + MsPerDay ELSE rst
    IN  [count |-> c, reset |-> r, exceeded |-> c >= maxRequestsPerDay]

\* a limit check that never finds the limit reached
checkDailyLimitNeverExceeded(cnt, rst, t) ==
    LET passed == t >= rst
        c == IF passed THEN 0 ELSE cnt
        r == IF passed THEN calculateNextReset(t) ELSE rst
    IN  [count |-> c, reset |-> r, exceeded |-> FALSE]

\* a limit check that lets one request more through
checkDailyLimitOffByOne(cnt, rst, t) ==
    LET passed == t >= rst
        c == IF passed THEN 0 ELSE cnt
        r == IF passed THEN calculateNextReset(t) ELSE rst
    IN  [count |-> c, reset |-> r, exceeded |-> c > maxRequestsPerDay]

\* checkDailyLimit at instant t with counter cnt and boundary rst:
\* the counter and boundary it leaves behind and the value it returns
checkDailyLimit(cnt, rst, t) ==
    LET passed == t >= rst
        c == IF passed THEN 0 ELSE cnt
        r == IF passed THEN calculateNextReset(t) ELSE rst
    IN  [count |-> c, reset |-> r, exceeded |-> c >= maxRequestsPerDay]

\* a push that puts the newest request at the front
PushFront(q, i) == <<i>> \o q

\* execute: this.queue.push({ resolve, reject, fn })
Push(q, i) == Append(q, i)

\* a guard with the processing test inverted
ReturnsEarlyWhenIdle(proc, q) == ~proc \/ Len(q) = 0

\* a guard that forgets the processing flag
ReturnsEarlyOnEmptyOnly(proc, q) == Len(q) = 0

\* processQueue: if (this.processing || this.queue.length === 0) return
ProcessQueueReturnsEarly(proc, q) == proc \/ Len(q) = 0

\* processQueue: const request = this.queue.shift()
ShiftHead(q) == Head(q)

\* a shift that empties the queue
ShiftDropsAll(q) == <<>>

\* a read of the head that leaves it in the queue
ShiftKeepsHead(q) == q

\* processQueue: what this.queue.shift() leaves in the queue
ShiftRest(q) == Tail(q)


\* a quota branch that rejects the head only
QuotaDrainsHeadOnly(q) == {Head(q)}

\* processQueue: the requests the quota branch rejects (inner while loop)
QuotaDrained(q) == Range(q)

\* a wait of the time already elapsed instead of the time still missing
WaitTimeElapsed(interval, timeSinceLastRequest) == timeSinceLastRequest

\* processQueue: waitTime = this.minInterval - timeSinceLastRequest
WaitTime(interval, timeSinceLastRequest) == interval - timeSinceLastRequest

\* a catch block that replaces the unit's error by the quota error
SettleWithQuotaError(outcome) ==
    IF outcome.kind = "ok" THEN Fulfilled(outcome.value) ELSE Rejected(QuotaError)

\* processQueue: request.resolve(result) / request.reject(error)
SettleWith(outcome) ==
    IF outcome.kind = "ok" THEN Fulfilled(outcome.value) ELSE Rejected(outcome.value)

\* a dispatch that counts the request twice
DispatchCountsTwice(request, cnt, ph) ==
    /\ lastRequestTime' = now
    /\ dailyRequestCount' = cnt + 2
    /\ invocations' = [invocations EXCEPT ![request] = @ + 1]
    /\ dispatchLog' = Append(dispatchLog, [item |-> request, at |-> now])
    /\ phase' = [ph EXCEPT ![request] = "awaiting"]

\* a dispatch that forgets this.dailyRequestCount++
DispatchUncounted(request, cnt, ph) ==
    /\ lastRequestTime' = now
    /\ dailyRequestCount' = cnt
    /\ invocations' = [invocations EXCEPT ![request] = @ + 1]
    /\ dispatchLog' = Append(dispatchLog, [item |-> request, at |-> now])
    /\ phase' = [ph EXCEPT ![request] = "awaiting"]

\* processQueue: this.lastRequestTime = Date.now(); this.dailyRequestCount++;
\* then request.fn() is called and awaited.  cnt is the counter before the increment.
Dispatch(request, cnt, ph) ==
    /\ lastRequestTime' = now
    /\ dailyRequestCount' = cnt + 1
    /\ invocations' = [invocations EXCEPT ![request] = @ + 1]
    /\ dispatchLog' = Append(dispatchLog, [item |-> request, at |-> now])
    /\ phase' = [ph EXCEPT ![request] = "awaiting"]

\* processQueue: the while loop from its test up to the next await (or the return),
\* entered with queue q, promises prom, settlement counts sett and phases ph
LoopFromTop(q, prom, sett, ph) ==
    IF Len(q) = 0
    THEN /\ processing' = FALSE
         /\ queue' = q
         /\ promise' = prom
         /\ settlements' = sett
         /\ phase' = ph
         /\ UNCHANGED <<dailyRequestCount, dailyResetTime, lastRequestTime,
                        wakeAt, invocations, dispatchLog, lastDrain, quotaUntil>>
    ELSE LET chk == checkDailyLimit(dailyRequestCount, dailyResetTime, now) IN
         IF chk.exceeded
         THEN /\ queue' = <<>>
              /\ promise' = [i \in Items |->
                                IF i \in QuotaDrained(q) THEN Rejected(QuotaError) ELSE prom[i]]
              /\ settlements' = [i \in Items |->
                                IF i \in QuotaDrained(q) THEN sett[i] + 1 ELSE sett[i]]
              /\ phase' = [i \in Items |-> IF i \in Range(q) THEN "finished" ELSE ph[i]]
              /\ processing' = FALSE
              /\ lastDrain' = QuotaDrained(q)
              /\ quotaUntil' = chk.reset
              /\ dailyRequestCount' = chk.count
              /\ dailyResetTime' = chk.reset
              /\ UNCHANGED <<lastRequestTime, wakeAt, invocations, dispatchLog>>
         ELSE LET request == ShiftHead(q)
                  timeSinceLastRequest == now - lastRequestTime
              IN  /\ queue' = ShiftRest(q)
                  /\ processing' = TRUE
                  /\ promise' = prom
                  /\ settlements' = sett
                  /\ dailyResetTime' = chk.reset
                  /\ UNCHANGED <<lastDrain, quotaUntil>>
                  /\ IF timeSinceLastRequest < minInterval
                     THEN /\ phase' = [ph EXCEPT ![request] = "sleeping"]
                          /\ wakeAt' = [wakeAt EXCEPT ![request] =
                                           now + WaitTime(minInterval, timeSinceLastRequest)]
                          /\ dailyRequestCount' = chk.count
                          /\ UNCHANGED <<lastRequestTime, invocations, dispatchLog>>
                     ELSE /\ Dispatch(request, chk.count, ph)
                          /\ UNCHANGED wakeAt

\* getDailyUsage at instant t with counter cnt and boundary rst: the value it returns
\* (used and resetsAt are also the counter and boundary it leaves behind)
getDailyUsage(cnt, rst, t) ==
    LET passed == t >= rst
        c == IF passed THEN 0 ELSE cnt
        r == IF passed THEN calculateNextReset(t) ELSE rst
    IN  [used |-> c, limit |-> maxRequestsPerDay,
         remaining |-> maxRequestsPerDay - c, resetsAt |-> r]


\* ------------------------------------------------- TranslationCache
\* Strings are sequences of characters; "" is <<>>.
CacheKeys == {<<>>, <<"a">>, <<"b">>, <<"c">>}
CacheValues == {<<>>, <<"x">>}

\* `undefined`, and a defined value
Undefined == [defined |-> FALSE, value |-> <<>>]
Some(v) == [defined |-> TRUE, value |-> v]

\* JavaScript truthiness of a string-or-undefined: undefined and "" are falsy
Truthy(x) == x.defined /\ x.value # <<>>

\* Map.prototype.has / get / delete / clear / keys().next().value on a Map held as
\* the sequence of its entries in insertion order
MapHas(c, k) == \E n \in 1..Len(c) : c[n].key = k
MapGet(c, k) ==
    IF MapHas(c, k) THEN Some(c[CHOOSE n \in 1..Len(c) : c[n].key = k].value) ELSE Undefined
MapDelete(c, k) == SelectSeq(c, LAMBDA e : e.key # k)
MapFirstKey(c) == IF Len(c) > 0 THEN Some(c[1].key) ELSE Undefined

\* a Map.set that keeps the old value of a key already present
MapSetKeepsOld(c, k, v) ==
    IF MapHas(c, k) THEN c ELSE Append(c, [key |-> k, value |-> v])

\* Map.prototype.set: a key already present keeps its place and takes the new value
MapSet(c, k, v) ==
    IF MapHas(c, k)
    THEN [n \in 1..Len(c) |-> IF c[n].key = k THEN [key |-> k, value |-> v] ELSE c[n]]
    ELSE Append(c, [key |-> k, value |-> v])

\* TranslationCache.set(key, value)
CacheSet(c, key, value) ==
    LET firstKey == MapFirstKey(c)
        c1 == IF Len(c) >= maxEntries /\ Truthy(firstKey)
              THEN MapDelete(c, firstKey.value)
              ELSE c
    IN  MapSet(c1, key, value)

\* TranslationCache.get(key): the value it returns
CacheGet(c, key) == MapGet(c, key)

\* a get that moves the key it reads to the newest place
CacheAfterGetLru(c, key) ==
    IF MapHas(c, key)
    THEN Append(MapDelete(c, key), [key |-> key, value |-> MapGet(c, key).value])
    ELSE c

\* TranslationCache.get(key): the Map it leaves behind
CacheAfterGet(c, key) == c

\* a clear that removes the oldest entry only
CacheClearOldest(c) == IF Len(c) > 0 THEN Tail(c) ELSE c

\* TranslationCache.clear() / clearTranslationCache()
CacheClear(c) == <<>>

\* TranslationCache.size / getTranslationCacheStats().size
CacheSize(c) == Len(c)


\* ------------------------------------------------- translation service
\* Language = 'en' | 'zh' | 'vi'
En == <<"e", "n">>
Zh == <<"z", "h">>
Vi == <<"v", "i">>
Languages == {En, Vi}
Texts == {<<"a">>, <<"b">>}

\* what the response stream can add up to (fullResponse)
Responses == {<<" ">>, <<"x">>, <<"y", " ">>}

\* getCacheKey(text, language): `${text}|${language}`
getCacheKey(text, language) == text \o <<"|">> \o language

\* String.prototype.trim()
IsSpace(ch) == ch = " "
RECURSIVE TrimStart(_)
TrimStart(str) ==
    IF str = <<>> THEN str
    ELSE IF IsSpace(Head(str)) THEN TrimStart(Tail(str)) ELSE str
RECURSIVE TrimEnd(_)
TrimEnd(str) ==
    IF str = <<>> THEN str
    ELSE IF IsSpace(str[Len(str)]) THEN TrimEnd(SubSeq(str, 1, Len(str) - 1)) ELSE str
Trim(str) == TrimEnd(TrimStart(str))

\* how each service issues its Gemini request
ViaLimiter == "googleAIRateLimiter.execute"
Direct == "ai.models.generateContentStream"
ChatWithUmaRoute == ViaLimiter
ChatWithUmaStreamRoute == ViaLimiter
GetUmaWelcomeMessageRoute == ViaLimiter
TranslateTextRoute == Direct
TranslateBatchRoute == Direct
GenerateDailyUpdatesRoute == Direct
OtherServices == {"chatWithUma", "chatWithUmaStream", "getUmaWelcomeMessage",
                  "translateBatch", "generateDailyUpdates"}
Route(s) ==
    CASE s = "chatWithUma" -> ChatWithUmaRoute
      [] s = "chatWithUmaStream" -> ChatWithUmaStreamRoute
      [] s = "getUmaWelcomeMessage" -> GetUmaWelcomeMessageRoute
      [] s = "translateText" -> TranslateTextRoute
      [] s = "translateBatch" -> TranslateBatchRoute
      [] s = "generateDailyUpdates" -> GenerateDailyUpdatesRoute


\* ------------------------------------------------- daily updates service
\* RiskProfile | null
RiskProfiles == {"null", "growth"}
\* what the model's answer parses to, and the payload of getFallbackDailyUpdates
AiContents == {"aiData"}
FallbackContent == "fallback"
\* why generateDailyUpdates ends in its catch block
GenerationErrors == {"VITE_GEMINI_API_KEY is not set", "network error",
                     "Invalid AI response format"}
Null == [date |-> 0, riskProfile |-> "null", content |-> "null"]

\* getTodayDate(), as a day number
getTodayDate(t) == t \div MsPerDay

\* `daily_updates_${riskProfile || 'default'}_${date}`
DailyCacheKey(riskProfile, date) ==
    [profile |-> IF riskProfile = "null" THEN "default" ELSE riskProfile, date |-> date]

\* generateDailyUpdates: the value it returns when the request and the parse succeed
GeneratedUpdates(riskProfile, content, t) ==
    [date |-> getTodayDate(t), riskProfile |-> riskProfile, content |-> content]

\* getFallbackDailyUpdates(riskProfile)
getFallbackDailyUpdates(riskProfile, t) ==
    [date |-> getTodayDate(t), riskProfile |-> riskProfile, content |-> FallbackContent]

\* getCachedDailyUpdates(riskProfile): the item of today, or null
getCachedDailyUpdates(ls, riskProfile, t) == ls[DailyCacheKey(riskProfile, getTodayDate(t))]

\* cleanOldCache: items dated more than 7 days back are removed
cleanOldCache(ls, t) ==
    [k \in DOMAIN ls |-> IF k.date < getTodayDate(t) - 7 THEN Null ELSE ls[k]]

\* cacheDailyUpdates(updates)
cacheDailyUpdates(ls, updates, t) ==
    cleanOldCache([ls EXCEPT ![DailyCacheKey(updates.riskProfile, updates.date)] = updates], t)

\* ----------------------------------------------------------------- Init
\* const translationCache = new TranslationCache(); no service has been called
ServicesInit ==
    /\ cache = <<>>
    /\ lastCall = [op |-> "none"]
    /\ setLog = <<>>
    /\ cleared = FALSE
    /\ tcalls = <<>>
    /\ apiLog = <<>>
    /\ outbound = {}
    /\ localStorage = [k \in {DailyCacheKey(p, d) : p \in RiskProfiles, d \in {0, 1}} |-> Null]
    /\ dcalls = <<>>

\* new RateLimiter(requestsPerMinute, requestsPerDay), built shortly before a midnight
Init ==
    /\ ServicesInit
    /\ quotaUntil = 0
    /\ now \in {MsPerDay - k * TickMs : k \in 1..StartLead}
    /\ minInterval \in {MinIntervalOf(r) : r \in RPMs}
    /\ maxRequestsPerDay \in 0..MaxRPD
    /\ lastRequestTime = 0
    /\ queue = <<>>
    /\ processing = FALSE
    /\ dailyRequestCount = 0
    /\ dailyResetTime = calculateNextReset(now)
    /\ phase = [i \in Items |-> "unsubmitted"]
    /\ wakeAt = [i \in Items |-> 0]
    /\ promise = [i \in Items |-> Pending]
    /\ unitResult = [i \in Items |-> NoResult]
    /\ invocations = [i \in Items |-> 0]
    /\ settlements = [i \in Items |-> 0]
    /\ dispatchLog = <<>>
    /\ lastDrain = {}
    /\ resetSubmit = [item |-> 0, ahead |-> 0]
    /\ queuedAtFailure = {}

\* -------------------------------------------------------------- actions
\* execute(fn): the i-th call of execute, up to the first await of processQueue
Execute(i) ==
    /\ phase[i] = "unsubmitted"
    /\ \A j \in Items : j < i => phase[j] # "unsubmitted"
    /\ LET q == Push(queue, i)
           ph == [phase EXCEPT ![i] = "queued"]
       IN  IF ProcessQueueReturnsEarly(processing, q)
           THEN /\ queue' = q
                /\ phase' = ph
                /\ UNCHANGED <<processing, dailyRequestCount, dailyResetTime, lastRequestTime,
                               wakeAt, promise, settlements, invocations, dispatchLog,
                               lastDrain, quotaUntil>>
           ELSE LoopFromTop(q, promise, settlements, ph)
    /\ resetSubmit' =
           IF /\ resetSubmit.item = 0
              /\ dailyRequestCount >= maxRequestsPerDay
              /\ now >= dailyResetTime
           THEN [item |-> i, ahead |-> Len(queue)]
           ELSE resetSubmit
    /\ UNCHANGED <<now, minInterval, maxRequestsPerDay, unitResult, queuedAtFailure>>
    /\ UNCHANGED <<cacheVars, serviceVars>>

\* processQueue resumes after `await new Promise(resolve => setTimeout(resolve, waitTime))`
TimerFires(i) ==
    /\ phase[i] = "sleeping"
    /\ now >= wakeAt[i]
    /\ Dispatch(i, dailyRequestCount, phase)
    /\ UNCHANGED <<now, minInterval, maxRequestsPerDay, queue, processing, dailyResetTime,
                   wakeAt, promise, unitResult, settlements, lastDrain, resetSubmit,
                   queuedAtFailure, quotaUntil>>
    /\ UNCHANGED <<cacheVars, serviceVars>>

\* the unit of work of item i completes with outcome o; processQueue resumes after
\* `await request.fn()`, settles the item and runs the loop to its next await
UnitSettles(i, o) ==
    /\ phase[i] = "awaiting"
    /\ unitResult' = [unitResult EXCEPT ![i] = o]
    /\ LoopFromTop(queue,
                   [promise EXCEPT ![i] = SettleWith(o)],
                   [settlements EXCEPT ![i] = @ + 1],
                   [phase EXCEPT ![i] = "finished"])
    /\ queuedAtFailure' = IF o.kind = "err" THEN queuedAtFailure \cup Range(queue)
                                            ELSE queuedAtFailure
    /\ UNCHANGED <<now, minInterval, maxRequestsPerDay, resetSubmit>>
    /\ UNCHANGED <<cacheVars, serviceVars>>

\* a caller reads getDailyUsage()
GetDailyUsage ==
    /\ LET u == getDailyUsage(dailyRequestCount, dailyResetTime, now) IN
         /\ dailyRequestCount' = u.used
         /\ dailyResetTime' = u.resetsAt
    /\ UNCHANGED <<now, minInterval, maxRequestsPerDay, lastRequestTime, queue, processing,
                   phase, wakeAt, promise, unitResult, invocations, settlements, dispatchLog,
                   lastDrain, resetSubmit, queuedAtFailure, quotaUntil>>
    /\ UNCHANGED <<cacheVars, serviceVars>>

\* the clock is observed MaxTicks ticks around each midnight
WindowOffset(t) == (t + StartLead * TickMs) % MsPerDay

Tick ==
    /\ WindowOffset(now) + TickMs <= MaxTicks * TickMs
    /\ now' = now + TickMs
    /\ UNCHANGED <<minInterval, maxRequestsPerDay, lastRequestTime, queue, processing,
                   dailyRequestCount, dailyResetTime, phase, wakeAt, promise, unitResult,
                   invocations, settlements, dispatchLog, lastDrain, resetSubmit,
                   queuedAtFailure, quotaUntil>>
    /\ UNCHANGED <<cacheVars, serviceVars>>

Next ==
    \/ \E i \in Items : Execute(i)
    \/ \E i \in Items : TimerFires(i)
    \/ \E i \in Items, o \in UnitOutcomes : UnitSettles(i, o)
    \/ GetDailyUsage
    \/ Tick

Spec == Init /\ [][Next]_vars


\* ------------------------------------------------ the limiter under fair scheduling
\* time passes until the pacing timer that holds item i is due
TimerDue(i) ==
    /\ phase[i] = "sleeping"
    /\ now < wakeAt[i]
    /\ now' = wakeAt[i]
    /\ UNCHANGED <<minInterval, maxRequestsPerDay, lastRequestTime, queue, processing,
                   dailyRequestCount, dailyResetTime, phase, wakeAt, promise, unitResult,
                   invocations, settlements, dispatchLog, lastDrain, resetSubmit,
                   queuedAtFailure, quotaUntil>>
    /\ UNCHANGED <<cacheVars, serviceVars>>

\* the limiter is built one tick before midnight
InitLive ==
    /\ Init
    /\ now = MsPerDay - TickMs

NextLive ==
    \/ \E i \in 1..MaxLiveItems : Execute(i)
    \/ \E i \in Items : TimerFires(i)
    \/ \E i \in Items, o \in UnitOutcomes : UnitSettles(i, o)
    \/ GetDailyUsage
    \/ Tick
    \/ \E i \in Items : TimerDue(i)

\* every timer set with setTimeout comes due and fires, and every dispatched unit of
\* work completes
Fairness ==
    \A i \in Items :
        /\ WF_vars(TimerDue(i))
        /\ WF_vars(TimerFires(i))
        /\ WF_vars(\E o \in UnitOutcomes : UnitSettles(i, o))

SpecLive == InitLive /\ [][NextLive]_vars /\ Fairness


\* ------------------------------------------------ the limiter left idle for days
\* a whole day passes in which nothing runs (the clock is read once a day here)
DayPasses ==
    /\ now + MsPerDay < (MaxDays + 1) * MsPerDay
    /\ now' = now + MsPerDay
    /\ UNCHANGED <<minInterval, maxRequestsPerDay, lastRequestTime, queue, processing,
                   dailyRequestCount, dailyResetTime, phase, wakeAt, promise, unitResult,
                   invocations, settlements, dispatchLog, lastDrain, resetSubmit,
                   queuedAtFailure, quotaUntil>>
    /\ UNCHANGED <<cacheVars, serviceVars>>

NextDays ==
    \/ \E i \in 1..MaxLiveItems : Execute(i)
    \/ \E i \in Items : TimerFires(i)
    \/ \E i \in Items, o \in UnitOutcomes : UnitSettles(i, o)
    \/ GetDailyUsage
    \/ DayPasses

SpecDays == InitLive /\ [][NextDays]_vars


\* ---------------------------------------- TranslationCache operations
\* the limiter is left as constructed while the cache is exercised
InitCache ==
    /\ Init
    /\ now = MsPerDay - TickMs
    /\ minInterval = MinIntervalOf(1)
    /\ maxRequestsPerDay = MaxRPD

\* translationCache.set(k, v)
Set(k, v) ==
    /\ Len(setLog) < MaxSets
    /\ cache' = CacheSet(cache, k, v)
    /\ lastCall' = [op |-> "set", key |-> k, value |-> v]
    /\ setLog' = Append(setLog, [key |-> k, value |-> v])
    /\ UNCHANGED <<cleared, limiterVars, serviceVars>>

\* translationCache.get(k)
Get(k) ==
    /\ lastCall' = [op |-> "get", key |-> k, ret |-> CacheGet(cache, k)]
    /\ cache' = CacheAfterGet(cache, k)
    /\ UNCHANGED <<setLog, cleared, limiterVars, serviceVars>>

\* clearTranslationCache()
Clear ==
    /\ cache' = CacheClear(cache)
    /\ lastCall' = [op |-> "clear"]
    /\ setLog' = <<>>
    /\ cleared' = TRUE
    /\ UNCHANGED <<limiterVars, serviceVars>>

NextCache ==
    \/ \E k \in CacheKeys, v \in CacheValues : Set(k, v)
    \/ \E k \in CacheKeys : Get(k)
    \/ Clear

SpecCache == InitCache /\ [][NextCache]_vars


\* ------------------------------------------------ translation service steps
Awaiting == {n \in 1..Len(tcalls) : tcalls[n].how = "awaiting"}

\* a finished call of translateText
Returned(text, language, how, ret, alone) ==
    [text |-> text, lang |-> language, how |-> how, ret |-> ret, alone |-> alone]

\* translateText(text, targetLanguage) up to its return or its await of the API
TranslateText(text, targetLanguage) ==
    /\ Len(tcalls) < MaxCalls
    /\ LET cacheKey == getCacheKey(text, targetLanguage)
           cached == CacheGet(cache, cacheKey)
           alone == Awaiting = {}
           others == [n \in 1..Len(tcalls) |->
                         IF n \in Awaiting THEN [tcalls[n] EXCEPT !.alone = FALSE]
                         ELSE tcalls[n]]
       IN  IF targetLanguage = En
           THEN /\ tcalls' = Append(others, Returned(text, targetLanguage, "en", text, alone))
                /\ UNCHANGED <<cache, apiLog, outbound>>
           ELSE IF Truthy(cached)
           THEN /\ tcalls' = Append(others,
                        Returned(text, targetLanguage, "hit", cached.value, alone))
                /\ cache' = CacheAfterGet(cache, cacheKey)
                /\ UNCHANGED <<apiLog, outbound>>
           ELSE /\ tcalls' = Append(others,
                        Returned(text, targetLanguage, "awaiting", <<>>, alone))
                /\ cache' = CacheAfterGet(cache, cacheKey)
                /\ apiLog' = Append(apiLog, cacheKey)
                /\ outbound' = outbound \cup
                        {[service |-> "translateText", via |-> TranslateTextRoute]}
    /\ UNCHANGED <<lastCall, setLog, cleared, limiterVars, localStorage, dcalls>>

\* the response stream of call n ends with fullResponse: trim, cache, return
ApiReturns(n, fullResponse) ==
    /\ n \in Awaiting
    /\ LET translated == Trim(fullResponse)
           cacheKey == getCacheKey(tcalls[n].text, tcalls[n].lang)
       IN  /\ cache' = CacheSet(cache, cacheKey, translated)
           /\ setLog' = Append(setLog, [key |-> cacheKey, value |-> translated])
           /\ tcalls' = [tcalls EXCEPT ![n].how = "api", ![n].ret = translated]
    /\ UNCHANGED <<lastCall, cleared, apiLog, outbound, limiterVars, localStorage, dcalls>>

\* a catch block that caches the original text as if it were the translation
ApiFailsCachesFallback(n) ==
    /\ n \in Awaiting
    /\ cache' = CacheSet(cache, getCacheKey(tcalls[n].text, tcalls[n].lang), tcalls[n].text)
    /\ tcalls' = [tcalls EXCEPT ![n].how = "fallback", ![n].ret = tcalls[n].text]
    /\ UNCHANGED <<lastCall, setLog, cleared, apiLog, outbound, limiterVars,
                   localStorage, dcalls>>

\* the request of call n throws: the catch block returns the original text
ApiFails(n) ==
    /\ n \in Awaiting
    /\ tcalls' = [tcalls EXCEPT ![n].how = "fallback", ![n].ret = tcalls[n].text]
    /\ UNCHANGED <<cacheVars, apiLog, outbound, limiterVars, localStorage, dcalls>>

\* another service reaches the statement that issues its Gemini request
ServiceRequest(s) ==
    /\ outbound' = outbound \cup {[service |-> s, via |-> Route(s)]}
    /\ UNCHANGED <<cacheVars, tcalls, apiLog, limiterVars, localStorage, dcalls>>

NextServices ==
    \/ \E text \in Texts, language \in Languages : TranslateText(text, language)
    \/ \E n \in 1..MaxCalls, r \in Responses : ApiReturns(n, r)
    \/ \E n \in 1..MaxCalls : ApiFails(n)

SpecServices == InitCache /\ [][NextServices]_vars

\* translateText together with the other services that call the Gemini API
NextRoutes ==
    \/ NextServices
    \/ \E s \in OtherServices : ServiceRequest(s)

SpecRoutes == InitCache /\ [][NextRoutes]_vars


\* ------------------------------------------------ daily updates service steps
Generating == {n \in 1..Len(dcalls) : dcalls[n].how = "generating"}

\* getDailyUpdates(riskProfile, forceRefresh) up to its return or its await of
\* generateDailyUpdates
GetDailyUpdates(riskProfile, forceRefresh) ==
    /\ Len(dcalls) < MaxDailyCalls
    /\ LET cached == getCachedDailyUpdates(localStorage, riskProfile, now) IN
         IF ~forceRefresh /\ cached # Null
         THEN dcalls' = Append(dcalls, [riskProfile |-> riskProfile, force |-> forceRefresh,
                                        how |-> "cached", ret |-> cached])
         ELSE dcalls' = Append(dcalls, [riskProfile |-> riskProfile, force |-> forceRefresh,
                                        how |-> "generating", ret |-> Null])
    /\ UNCHANGED <<localStorage, tcalls, apiLog, outbound, cacheVars, limiterVars>>

\* generateDailyUpdates of call n returns the parsed answer; getDailyUpdates caches
\* and returns it
GenerationSucceeds(n, content) ==
    /\ n \in Generating
    /\ LET updates == GeneratedUpdates(dcalls[n].riskProfile, content, now) IN
         /\ localStorage' = cacheDailyUpdates(localStorage, updates, now)
         /\ dcalls' = [dcalls EXCEPT ![n].how = "generated", ![n].ret = updates]
    /\ UNCHANGED <<tcalls, apiLog, outbound, cacheVars, limiterVars>>

\* generateDailyUpdates of call n ends in its catch block and returns the fallback;
\* getDailyUpdates caches and returns it
GenerationFails(n, error) ==
    /\ n \in Generating
    /\ LET updates == getFallbackDailyUpdates(dcalls[n].riskProfile, now) IN
         /\ localStorage' = cacheDailyUpdates(localStorage, updates, now)
         /\ dcalls' = [dcalls EXCEPT ![n].how = "failed", ![n].ret = updates]
    /\ UNCHANGED <<tcalls, apiLog, outbound, cacheVars, limiterVars>>

NextDaily ==
    \/ \E p \in RiskProfiles, f \in BOOLEAN : GetDailyUpdates(p, f)
    \/ \E n \in 1..MaxDailyCalls, c \in AiContents : GenerationSucceeds(n, c)
    \/ \E n \in 1..MaxDailyCalls, e \in GenerationErrors : GenerationFails(n, e)

SpecDaily == InitCache /\ [][NextDaily]_vars

TypeOK ==
    /\ now \in Nat
    /\ processing \in BOOLEAN
    /\ dailyRequestCount \in Nat
    /\ Range(queue) \subseteq Items
    /\ \A i \in Items : phase[i] \in {"unsubmitted", "queued", "sleeping", "awaiting", "finished"}
    /\ \A i \in Items : (phase[i] = "queued") <=> (i \in Range(queue))

\* ------------------------------------------------------------ properties
Position(i) == CHOOSE k \in 1..Len(dispatchLog) : dispatchLog[k].item = i
Dispatched(i) == \E k \in 1..Len(dispatchLog) : dispatchLog[k].item = i
InFlight == {i \in Items : phase[i] = "awaiting"}
ActiveLoops == {i \in Items : phase[i] \in {"sleeping", "awaiting"}}
DayOf(t) == t \div MsPerDay

\* C1: units of work are dispatched in submission order (items are numbered in the
\* order of their execute() calls): of two dispatched items the earlier-submitted one
\* comes first in the dispatch log and is settled before the later one is invoked.
C1_FifoDispatch ==
    \A a \in Items, b \in Items :
        (a < b /\ Dispatched(a) /\ Dispatched(b)) =>
            /\ Position(a) < Position(b)
            /\ settlements[a] >= 1
            /\ unitResult[a] # NoResult

\* three items dispatched, the last two submitted while the first was being awaited
C1_Witness ==
    /\ Len(dispatchLog) >= 3
    /\ \E i \in Items : phase[i] = "awaiting" /\ i >= 3
    /\ \E i \in Items : promise[i].state = "rejected" /\ Dispatched(i)

\* C2: at most one unit of work is invoked and not yet settled, and at most one
\* processQueue loop is suspended at an await; a loop is active exactly when the
\* processing flag is set.
C2_SingleFlight ==
    /\ Cardinality(InFlight) <= 1
    /\ Cardinality(ActiveLoops) <= 1
    /\ processing <=> (ActiveLoops # {})

\* execute() was called twice while a unit was in flight
C2_Witness ==
    /\ Cardinality(InFlight) = 1
    /\ Len(queue) >= 2

\* C3: the instants of two consecutive dispatches are at least minInterval apart.
C3_Pacing ==
    \A k \in 1..(Len(dispatchLog) - 1) :
        dispatchLog[k + 1].at - dispatchLog[k].at >= minInterval

\* three dispatches, the loop slept before one of them and woke exactly on time
C3_Witness ==
    /\ Len(dispatchLog) >= 3
    /\ \E k \in 1..(Len(dispatchLog) - 1) :
          dispatchLog[k + 1].at - dispatchLog[k].at = minInterval
    /\ \E k \in 1..(Len(dispatchLog) - 1) :
          dispatchLog[k + 1].at - dispatchLog[k].at > minInterval

\* C4: in every reset window (the day between two midnights) at most
\* maxRequestsPerDay dispatches start.
C4_DailyCeiling ==
    \A d \in {DayOf(dispatchLog[k].at) : k \in 1..Len(dispatchLog)} :
        Cardinality({k \in 1..Len(dispatchLog) : DayOf(dispatchLog[k].at) = d})
            <= maxRequestsPerDay

\* the step is a run of the processQueue loop from its top: execute() on an idle
\* limiter, or the resumption after an awaited unit of work
Submitted == {i \in Items : phase[i] = "unsubmitted" /\ phase'[i] # "unsubmitted"}
AtLoopTop ==
    \/ Submitted # {} /\ ~processing
    \/ \E i \in Items : phase[i] = "awaiting" /\ phase'[i] = "finished"
QueueAtTop == Range(queue) \cup Submitted
LimitFound == checkDailyLimit(dailyRequestCount, dailyResetTime, now).exceeded

\* C5: when the loop finds the daily limit reached at the top of an iteration, every
\* item in the queue at that moment is rejected with the quota error, the queue
\* is left empty and the processing flag is cleared.
C5_BulkQuotaFailure ==
    [][(AtLoopTop /\ QueueAtTop # {} /\ LimitFound) =>
          /\ \A j \in QueueAtTop :
                promise[j] = Pending /\ promise'[j] = Rejected(QuotaError)
          /\ queue' = <<>>
          /\ processing' = FALSE]_vars

\* one run of the quota branch rejected two items together
C5_Witness ==
    /\ Cardinality(lastDrain) >= 2
    /\ \A j \in lastDrain : promise[j] = Rejected(QuotaError)
    /\ queue = <<>>
    /\ ~processing

\* C6: an item whose unit of work failed with error e has its promise rejected with
\* exactly e, and its unit was invoked once only.
C6_ErrorPassthrough ==
    \A i \in Items :
        unitResult[i].kind = "err" =>
            /\ promise[i] = Rejected(unitResult[i].value)
            /\ promise[i].value # QuotaError
            /\ invocations[i] = 1

\* a unit failed and the loop has gone on to dispatch a later item
C6_Witness ==
    \E i \in Items, j \in Items :
        /\ i < j
        /\ unitResult[i].kind = "err"
        /\ promise[i].state = "rejected"
        /\ Dispatched(j)

\* C7: a failing unit of work changes no other item's promise unless the daily limit
\* is found reached, leaves the rest of the queue in place and lets the loop go on
\* with the item behind it; every item that was queued behind a failure settles
\* with the outcome of its own unit or with the quota error.
Fails(i) == unitResult[i] = NoResult /\ unitResult'[i].kind = "err"
C7_FailureIsolation ==
    /\ [][\A i \in Items : Fails(i) =>
            /\ \A j \in Items \ {i} :
                  promise'[j] # promise[j] =>
                      (LimitFound /\ promise'[j] = Rejected(QuotaError))
            /\ (queue # <<>> /\ ~LimitFound) =>
                  /\ processing'
                  /\ phase'[Head(queue)] \in {"sleeping", "awaiting"}
                  /\ queue' = Tail(queue)]_vars
    /\ [](\A j \in queuedAtFailure :
            \/ phase[j] \in {"queued", "sleeping", "awaiting"} /\ promise[j] = Pending
            \/ /\ phase[j] = "finished" /\ invocations[j] = 1
               /\ promise[j].value = unitResult[j].value
               /\ (promise[j].state = "fulfilled") = (unitResult[j].kind = "ok")
            \/ /\ phase[j] = "finished" /\ invocations[j] = 0
               /\ promise[j] = Rejected(QuotaError))

\* an item queued behind a failing unit was dispatched and fulfilled
C7_Witness ==
    \E j \in queuedAtFailure :
        /\ promise[j].state = "fulfilled"
        /\ \E i \in Items : i < j /\ unitResult[i].kind = "err"

\* C8 as stated, for a limiter with a positive ceiling: the first item submitted with
\* the counter at the ceiling and the boundary passed is not rejected with the quota
\* error, and the counter reads 1 once it is dispatched (before a further boundary).
ResetItemServed ==
    LET i == resetSubmit.item IN
        /\ promise[i] # Rejected(QuotaError)
        /\ (phase[i] = "awaiting" /\ now < dailyResetTime) =>
              getDailyUsage(dailyRequestCount, dailyResetTime, now).used = 1
FirstBoundary == MsPerDay
C9_UsageAccounting ==
    LET u == getDailyUsage(dailyRequestCount, dailyResetTime, now)
        n == Len(dispatchLog)
    IN  /\ u.used + u.remaining = u.limit
        /\ now < FirstBoundary =>
              /\ u.used = n
              /\ u.limit = maxRequestsPerDay
              /\ u.remaining = maxRequestsPerDay - n

\* two dispatches before the first midnight
C9_Witness ==
    /\ now < FirstBoundary
    /\ Len(dispatchLog) = 2
    /\ getDailyUsage(dailyRequestCount, dailyResetTime, now).remaining = maxRequestsPerDay - 2

\* C10: every submitted item is in the queue, held by the loop, or settled; it is
\* settled at most once, either with the outcome of its unit, invoked once, or with
\* the quota error without having been invoked.
C10_SettledExactlyOnce ==
    \A i \in Items :
        /\ settlements[i] <= 1
        /\ invocations[i] <= 1
        /\ Cardinality({k \in 1..Len(queue) : queue[k] = i}) <= 1
        /\ (phase[i] = "queued") <=> (i \in Range(queue))
        /\ phase[i] \in {"unsubmitted", "queued", "sleeping"} =>
              settlements[i] = 0 /\ invocations[i] = 0 /\ promise[i] = Pending
        /\ phase[i] = "awaiting" =>
              settlements[i] = 0 /\ invocations[i] = 1 /\ promise[i] = Pending
        /\ phase[i] = "finished" =>
              /\ settlements[i] = 1
              /\ \/ /\ invocations[i] = 1
                    /\ unitResult[i] # NoResult
                    /\ promise[i].value = unitResult[i].value
                    /\ (promise[i].state = "fulfilled") = (unitResult[i].kind = "ok")
                    /\ (promise[i].state = "rejected") = (unitResult[i].kind = "err")
                 \/ /\ invocations[i] = 0
                    /\ unitResult[i] = NoResult
                    /\ promise[i] = Rejected(QuotaError)

\* every item is settled, some by their units and some by the quota branch
C10_Witness ==
    /\ \A i \in Items : phase[i] = "finished"
    /\ \E i \in Items : promise[i].state = "fulfilled"
    /\ \E i \in Items : promise[i] = Rejected(QuotaError)
    /\ \E i \in Items : promise[i].state = "rejected" /\ invocations[i] = 1

\* C11: from a quota rejection until the reset boundary that stood at that moment,
\* no unit of work is dispatched and every item submitted is rejected with the
\* quota error.
C11_QuotaTerminal ==
    [][now < quotaUntil =>
          /\ dispatchLog' = dispatchLog
          /\ \A i \in Submitted : promise'[i] = Rejected(QuotaError)]_vars

\* after a quota rejection, two more items were submitted before the boundary
C11_Witness ==
    /\ now < quotaUntil
    /\ Len(dispatchLog) >= 1
    /\ Cardinality({i \in Items : promise[i] = Rejected(QuotaError)}) >= 3
    /\ Cardinality(lastDrain) = 1

\* C12: with requestsPerMinute = R, at most R dispatches start within any 60000 ms
\* (every such window may be taken to begin at one of the dispatches).
DispatchesWithinMinuteOf(k) ==
    {j \in k..Len(dispatchLog) : dispatchLog[j].at - dispatchLog[k].at <= MsPerMinute}
C12_RpmCeiling ==
    \A r \in RPMs :
        minInterval = MinIntervalOf(r) =>
            \A k \in 1..Len(dispatchLog) : Cardinality(DispatchesWithinMinuteOf(k)) <= r

\* requestsPerMinute = 2: two dispatches within one minute and a third outside it
C12_Witness ==
    /\ minInterval = MinIntervalOf(2)
    /\ Len(dispatchLog) >= 3
    /\ Cardinality(DispatchesWithinMinuteOf(1)) = 2

CacheKeySet(c) == {c[n].key : n \in 1..Len(c)}
SetKeys == {setLog[n].key : n \in 1..Len(setLog)}
DistinctSets == \A m \in 1..Len(setLog), n \in 1..Len(setLog) :
                    setLog[m].key = setLog[n].key => m = n
IsSetStep == lastCall'.op = "set" /\ setLog' # setLog
IsGetStep == lastCall'.op = "get"
IsClearStep == lastCall'.op = "clear"

\* C14: the cache never holds more than maxEntries entries.
C14_Capacity == CacheSize(cache) <= maxEntries

\* C15: maxEntries + 1 set() calls with distinct keys on an empty cache leave exactly
\* maxEntries entries: the first key is gone, every later key has its value.
C15_EvictsOldest ==
    (Len(setLog) = maxEntries + 1 /\ DistinctSets) =>
        /\ CacheSize(cache) = maxEntries
        /\ ~CacheGet(cache, setLog[1].key).defined
        /\ \A n \in 2..Len(setLog) : CacheGet(cache, setLog[n].key) = Some(setLog[n].value)

C17_OverwriteRemovesNothing ==
    [][(IsSetStep /\ MapHas(cache, lastCall'.key)) =>
          /\ CacheKeySet(cache') = CacheKeySet(cache)
          /\ CacheSize(cache') = CacheSize(cache)
          /\ CacheGet(cache', lastCall'.key) = Some(lastCall'.value)]_vars

\* C18: after set(k, v) the lookup of k is v; the lookup of a key changes only when
\* that key is set, when it is the oldest key and a set() evicts it, or on clear();
\* get returns the lookup; a key not set since the cache was empty is undefined.
C18_RoundTrip ==
    /\ [][/\ IsSetStep => CacheGet(cache', lastCall'.key) = Some(lastCall'.value)
          /\ \A k \in CacheKeys :
                CacheGet(cache', k) # CacheGet(cache, k) =>
                    \/ IsSetStep /\ lastCall'.key = k
                    \/ IsSetStep /\ CacheSize(cache) >= maxEntries /\ cache[1].key = k
                    \/ IsClearStep]_vars
    /\ [](lastCall.op = "get" => lastCall.ret = CacheGet(cache, lastCall.key))
    /\ [](\A k \in CacheKeys \ SetKeys : CacheGet(cache, k) = Undefined)
    /\ [](\A k \in CacheKeys \ CacheKeySet(cache) : CacheGet(cache, k) = Undefined)

\* a key was set, another key was set after it, and get still returned the first value
C18_Witness ==
    /\ lastCall.op = "get"
    /\ Len(setLog) >= 2
    /\ setLog[Len(setLog) - 1].key = lastCall.key
    /\ setLog[Len(setLog)].key # lastCall.key
    /\ lastCall.ret = Some(setLog[Len(setLog) - 1].value)
    /\ lastCall.ret.value # <<>>

\* C19: clear() leaves size 0 and every key undefined, and the next maxEntries
\* set() calls with distinct keys all stay in the cache.
C19_ClearEmpties ==
    /\ [][IsClearStep =>
            /\ CacheSize(cache') = 0
            /\ \A k \in CacheKeys : CacheGet(cache', k) = Undefined]_vars
    /\ []((cleared /\ Len(setLog) <= maxEntries /\ DistinctSets) =>
            /\ CacheSize(cache) = Len(setLog)
            /\ \A n \in 1..Len(setLog) :
                  CacheGet(cache, setLog[n].key) = Some(setLog[n].value))

\* maxEntries distinct keys, the empty string among them, set after a clear()
C19_Witness ==
    /\ cleared
    /\ Len(setLog) = maxEntries
    /\ DistinctSets
    /\ <<>> \in SetKeys
    /\ CacheSize(cache) = maxEntries

\* C13: every outbound Gemini call of the web app's services goes through
\* googleAIRateLimiter.execute().
C13_AllThroughLimiter == \A c \in outbound : c.via = ViaLimiter

\* C20: translateText calls that all have the same text and the same non-English
\* language, none overlapping another, the first one's external call succeeding: one
\* external call in all, every later call answered from the cache with its result.
C20_OneExternalCall ==
    (/\ Len(tcalls) >= 2
     /\ \A n \in 1..Len(tcalls) :
            /\ tcalls[n].text = tcalls[1].text
            /\ tcalls[n].lang = tcalls[1].lang
            /\ tcalls[n].alone
            /\ tcalls[n].how # "awaiting"
     /\ tcalls[1].lang # En
     /\ tcalls[1].how = "api")
    => /\ Len(apiLog) = 1
       /\ \A n \in 2..Len(tcalls) :
            tcalls[n].how = "hit" /\ tcalls[n].ret = tcalls[1].ret

\* C21: a failing generateDailyUpdates leaves the daily-update cache unchanged, so no
\* later getDailyUpdates is served the fallback payload from the cache.
C21_FailureNotCached ==
    /\ [][\A n \in 1..Len(dcalls) :
            (dcalls[n].how = "generating" /\ dcalls'[n].how = "failed")
                => localStorage' = localStorage]_vars
    /\ [](\A n \in 1..Len(dcalls) :
            dcalls[n].how = "cached" => dcalls[n].ret.content # FallbackContent)

\* the item was settled once, by the quota branch or by its own unit of work
SettledByQuota(i) ==
    promise[i] = Rejected(QuotaError) /\ invocations[i] = 0 /\ settlements[i] = 1
SettledByUnit(i) ==
    /\ Dispatched(i)
    /\ invocations[i] = 1
    /\ settlements[i] = 1
    /\ promise[i] = SettleWith(unitResult[i])

\* C22: every submitted item is eventually settled: dispatched and settled with the
\* outcome of its unit of work, unless the quota branch rejected it.
C22_NoLostSubmission ==
    \A i \in Items :
        (phase[i] # "unsubmitted") ~>
            (phase[i] = "finished" /\ (SettledByUnit(i) \/ SettledByQuota(i)))

\* all items settled by their units, among them one that was submitted while the
\* loop was busy with a unit that then failed
C22_Witness ==
    /\ \A i \in 1..MaxLiveItems : phase[i] = "finished" /\ SettledByUnit(i)
    /\ \E j \in queuedAtFailure : promise[j].state = "fulfilled"
    /\ ~processing

\* C23: while a dispatched unit of work has not completed, the processing flag is set,
\* every item submitted after it stays queued, unsettled and never invoked, and no
\* step dispatches or settles anything.
C23_HungUnitStalls ==
    /\ [](\A i \in Items : phase[i] = "awaiting" =>
            /\ processing
            /\ \A j \in Items : j > i =>
                  /\ phase[j] \in {"unsubmitted", "queued"}
                  /\ promise[j] = Pending
                  /\ invocations[j] = 0
                  /\ settlements[j] = 0)
    /\ [][\A i \in Items : (phase[i] = "awaiting" /\ phase'[i] = "awaiting") =>
            /\ dispatchLog' = dispatchLog
            /\ promise' = promise
            /\ invocations' = invocations
            /\ processing']_vars

\* a unit has been awaited for over two pacing intervals and past midnight, with two
\* items submitted behind it
C23_Witness ==
    \E i \in Items :
        /\ phase[i] = "awaiting"
        /\ Len(queue) >= 2
        /\ now - lastRequestTime > 2 * minInterval
        /\ now >= dailyResetTime
        /\ dailyRequestCount < maxRequestsPerDay

\* C24: as long as no reset boundary has been crossed, the dispatched items are the
\* first maxRequestsPerDay items in submission order; an item rejected with the quota
\* error comes after them, was never invoked, and is rejected only once exactly
\* maxRequestsPerDay dispatches have been made.
C24_PartialQuota ==
    now < FirstBoundary =>
        \A i \in Items :
            /\ Dispatched(i) => i <= maxRequestsPerDay
            /\ promise[i] = Rejected(QuotaError) =>
                  /\ i > maxRequestsPerDay
                  /\ invocations[i] = 0
                  /\ Len(dispatchLog) = maxRequestsPerDay
                  /\ \A j \in 1..maxRequestsPerDay : Dispatched(j)
            /\ (phase[i] = "finished" /\ i <= maxRequestsPerDay) => SettledByUnit(i)
            /\ (phase[i] = "finished" /\ i > maxRequestsPerDay) => SettledByQuota(i)

\* four items before midnight with two dispatches left: two served, two rejected together
C24_Witness ==
    /\ now < FirstBoundary
    /\ maxRequestsPerDay = 2
    /\ SettledByUnit(1) /\ SettledByUnit(2)
    /\ lastDrain = {3, 4}
    /\ SettledByQuota(3) /\ SettledByQuota(4)

\* the step calls checkDailyLimit: the loop runs from its top with a non-empty queue
ChecksLimit == AtLoopTop /\ QueueAtTop # {}
\* the step observes the boundary passed
ObservesBoundaryPassed ==
    now >= dailyResetTime /\ (ChecksLimit \/ dailyResetTime' # dailyResetTime)
\* r is the first midnight after the instant t
FirstMidnightAfter(r, t) == r % MsPerDay = 0 /\ r > t /\ r - MsPerDay <= t

\* C25 as stated: an observation of now >= dailyResetTime clears the counter and moves
\* the boundary exactly one day on from its previous value, however late it is made.
C25_AdvanceAsStated ==
    /\ [][ObservesBoundaryPassed =>
            /\ dailyResetTime' = dailyResetTime + MsPerDay
            /\ dailyRequestCount' = Len(dispatchLog') - Len(dispatchLog)]_vars
    /\ [](now >= dailyResetTime =>
            LET u == getDailyUsage(dailyRequestCount, dailyResetTime, now)
            IN  u.used = 0 /\ u.resetsAt = dailyResetTime + MsPerDay)

\* C25 amended: the counter is cleared (and counts only a dispatch made in the same
\* step) and the boundary becomes the first midnight after now: one day past its
\* previous value when less than a day has passed since, later otherwise.
C25_AdvanceAmended ==
    /\ [][ObservesBoundaryPassed =>
            /\ FirstMidnightAfter(dailyResetTime', now)
            /\ now < dailyResetTime + MsPerDay => dailyResetTime' = dailyResetTime + MsPerDay
            /\ dailyRequestCount' = Len(dispatchLog') - Len(dispatchLog)]_vars
    /\ [](now >= dailyResetTime =>
            LET u == getDailyUsage(dailyRequestCount, dailyResetTime, now)
            IN  /\ u.used = 0
                /\ FirstMidnightAfter(u.resetsAt, now)
                /\ now < dailyResetTime + MsPerDay => u.resetsAt = dailyResetTime + MsPerDay)

\* dispatches on the first day, then idle days, then a dispatch that found the boundary
\* passed: the counter restarted and the boundary is the midnight after that dispatch
C25_Witness ==
    /\ Len(dispatchLog) >= 2
    /\ dispatchLog[Len(dispatchLog) - 1].at < FirstBoundary
    /\ dispatchLog[Len(dispatchLog)].at >= 2 * MsPerDay
    /\ dailyResetTime >= 3 * MsPerDay
    /\ dailyRequestCount = 1

\* key j comes before key k in the Map's order
Before(c, j, k) ==
    \E m \in 1..Len(c), n \in 1..Len(c) : m < n /\ c[m].key = j /\ c[n].key = k

\* C26: set(k, v2) on a key already present leaves k where it was in the eviction
\* order: every key that survives the call is before k afterwards exactly if it was
\* before k.
C26_OverwriteKeepsAge ==
    [][(IsSetStep /\ MapHas(cache, lastCall'.key)) =>
          /\ MapHas(cache', lastCall'.key)
          /\ \A j \in CacheKeySet(cache) \cap CacheKeySet(cache') :
                Before(cache', j, lastCall'.key) <=> Before(cache, j, lastCall'.key)]_vars

\* the calls made so far all have the same text and the same non-English language
SameKeyCalls ==
    /\ Len(tcalls) >= 2
    /\ tcalls[1].lang # En
    /\ \A n \in 1..Len(tcalls) :
          tcalls[n].text = tcalls[1].text /\ tcalls[n].lang = tcalls[1].lang

\* C27: translateText calls with the same text and non-English language that overlap
\* make one external call in all.
C27_OneExternalCallOverlapping ==
    (SameKeyCalls /\ \A n \in 1..Len(tcalls) : ~tcalls[n].alone) => Len(apiLog) = 1

\* the step in which translateText is called with 'en'
IsEnglishCall ==
    Len(tcalls') = Len(tcalls) + 1 /\ tcalls'[Len(tcalls')].lang = En

\* C28: a failing external call makes translateText return the original text and
\* leaves the cache as it was; with target 'en' translateText returns its input,
\* leaves the cache alone and makes no external call.
C28_FailureFallback ==
    /\ [][/\ \A n \in 1..Len(tcalls) :
                (tcalls[n].how = "awaiting" /\ tcalls'[n].how = "fallback") =>
                    /\ tcalls'[n].ret = tcalls[n].text
                    /\ cache' = cache
                    /\ apiLog' = apiLog
          /\ IsEnglishCall =>
                /\ tcalls'[Len(tcalls')].how = "en"
                /\ tcalls'[Len(tcalls')].ret = tcalls'[Len(tcalls')].text
                /\ cache' = cache
                /\ apiLog' = apiLog
                /\ outbound' = outbound]_vars
    /\ [](\A n \in 1..Len(tcalls) :
            tcalls[n].how \in {"en", "hit", "awaiting", "api", "fallback"})

\* a call fell back to the original text while another key was cached; its own key
\* is not in the cache, and a call with 'en' has been made
C28_Witness ==
    /\ \E n \in 1..Len(tcalls) :
          /\ tcalls[n].how = "fallback"
          /\ tcalls[n].ret = tcalls[n].text
          /\ ~MapHas(cache, getCacheKey(tcalls[n].text, tcalls[n].lang))
    /\ \E n \in 1..Len(tcalls) : tcalls[n].how = "en"
    /\ CacheSize(cache) = 1
    /\ Len(apiLog) = 2

\* the items whose unit of work is invoked in this step
Invoked == {i \in Items : invocations'[i] = invocations[i] + 1}
\* the counter as this step's boundary check, if any, leaves it
CounterBase == IF dailyResetTime' # dailyResetTime THEN 0 ELSE dailyRequestCount

\* C29: a step raises the counter by one for each unit of work it invokes, while the
\* unit's outcome is still unknown, and by nothing else: not when a unit succeeds or
\* fails, not when items are rejected with the quota error.  Before the first
\* boundary the counter is the number of units invoked, failed ones included.
C29_CountsDispatches ==
    /\ [][/\ dailyRequestCount' = CounterBase + Cardinality(Invoked)
          /\ \A i \in Invoked : unitResult'[i] = NoResult /\ promise'[i] = Pending
          /\ \A i \in Items :
                (promise[i] = Pending /\ promise'[i] = Rejected(QuotaError))
                    => dailyRequestCount' = CounterBase]_vars
    /\ [](now < FirstBoundary =>
            dailyRequestCount = Cardinality({i \in Items : invocations[i] = 1}))

\* two units invoked before midnight, one failed and one succeeded, both counted, and
\* a third item rejected with the quota error
C29_Witness ==
    /\ now < FirstBoundary
    /\ dailyRequestCount = 2
    /\ \E i \in Items : unitResult[i].kind = "err" /\ invocations[i] = 1
    /\ \E i \in Items : unitResult[i].kind = "ok" /\ invocations[i] = 1
    /\ \E i \in Items : SettledByQuota(i)

\* C30: the counter stays between 0 and maxRequestsPerDay, and getDailyUsage()
\* never reports a negative remaining.
C30_CounterBounds ==
    /\ 0 <= dailyRequestCount
    /\ dailyRequestCount <= maxRequestsPerDay
    /\ getDailyUsage(dailyRequestCount, dailyResetTime, now).remaining >= 0

\* the counter is at the ceiling in the window after the first boundary
C30_Witness ==
    /\ now >= FirstBoundary
    /\ maxRequestsPerDay = 2
    /\ dailyRequestCount = maxRequestsPerDay
    /\ dailyResetTime = 2 * MsPerDay
    /\ getDailyUsage(dailyRequestCount, dailyResetTime, now).remaining = 0

====
